---- MODULE Spec2Model ----
(***************************************************************************)
(* Model of unused/unused.go: the use-graph builder (decl, stmt, read,     *)
(* write, namedType, embeddedField), the entry phases (declaration walk,   *)
(* method sets, suppression overlay) and results() (color, quieten,        *)
(* classification).                                                        *)
(*                                                                         *)
(* The analysed package is the input.  Its typed syntax tree is modelled   *)
(* as records (one record shape per ast node type the builder switches     *)
(* on), its symbol table as the table Ob.  A behaviour analyses one of a   *)
(* few small packages ("units"); the bodies of the functions, the layout   *)
(* of the constant declaration and the suppression directives are chosen   *)
(* nondeterministically.                                                   *)
(*                                                                         *)
(* node.uses and node.owns are slices that may hold duplicates; they are   *)
(* modelled as sets of pairs, which is all color and quieten observe.      *)
(***************************************************************************)
EXTENDS Integers, Sequences, FiniteSets, TLC

VARIABLES
    unit,      \* which package is analysed (pass.Files / pass.Pkg)
    Ob,        \* the objects of pass.TypesInfo: what go/types records of each
    pc,        \* position of run(): "decls", "methodsets", "ignores", "results", "done";
               \* step by step also "ignoreloop", "color", "quieten", "classify"
    idx,       \* index of the next top-level declaration of the walk in entry()
    prog,      \* the declarations walked so far, as syntax trees (the input read so far)
    ignores,   \* the ignoredKey set built from the directives
    G,         \* the graph: Nodes, uses, owns, namedTypes, interfaceTypes
    seen,      \* nodes with node.seen set (Root included)
    quiet,     \* nodes with node.quiet set
    Used,      \* Result.Used
    Unused,    \* Result.Unused
    stack,     \* the frames of the recursive calls of color and quieten: the node
               \* and the part of its slice still to range over
    todo       \* the keys a range over g.Nodes has still to produce

vars == <<unit, Ob, pc, idx, prog, ignores, G, seen, quiet, Used, Unused, stack, todo>>

\* Bounds of the model.
MaxStmts == 2      \* statements in one function body
MaxIgnores == 1    \* U1000 suppression directives in the package

Nil == "nil"       \* Go's nil (no object, no owner, no syntax node)
Root == "Root"     \* g.Root, the node of the nil object
ThePkg == "p"      \* g.pass.Pkg
Universe == ""     \* Pkg() of predeclared objects is nil

-----------------------------------------------------------------------------
(* go/types: types *)

Named(o) == [k |-> "Named", obj |-> o]
Basic(n) == [k |-> "Basic", name |-> n]
Pointer(e) == [k |-> "Pointer", elem |-> e]
Struct(fs) == [k |-> "Struct", fields |-> fs]
Interface(ms) == [k |-> "Interface", methods |-> ms]
Signature(ps, rs) == [k |-> "Signature", params |-> ps, results |-> rs]

IntT == Basic("int")
UnsafePointerT == Basic("unsafe.Pointer")

\* Underlying type of each named type of the modelled packages.
UnderlyingOf(o) ==
    CASE o = "noCopy" -> Struct(<<>>)
      [] o = "U" -> Struct(<<"U.u">>)
      [] o = "T" -> Struct(<<"T.x", "T._", "T.nc", "T.noCopy", "T.U">>)
      [] o = "A" -> Struct(<<"A.x">>)
      [] o = "B" -> Struct(<<"B.y">>)
      [] o = "S" -> Struct(<<>>)
      [] o = "_t" -> Struct(<<>>)
      [] o = "g._t" -> Struct(<<>>)
      [] o = "I" -> Interface(<<"I.m">>)
      [] o = "q.D" -> Struct(<<"q.D.X">>)
      [] o = "C" -> Struct(<<"C.X">>)
      [] o = "P" -> Struct(<<"P.a", "P.int">>)
      [] o = "X" -> Struct(<<"X.x", "X.F">>)
      [] o = "MA" -> Struct(<<"MA.mb">>)
      [] o = "MB" -> Struct(<<"MB.ma", "MB.F">>)
      [] o = "H" -> Struct(<<"H.ma">>)
      [] o = "K" -> Struct(<<"K.D">>)
      [] o = "R" -> Struct(<<>>)
      [] o = "g.lt" -> Struct(<<"g.lt.x">>)
      [] OTHER -> IntT

\* types.Named.Method(i): the methods declared on a named type.
MethodsOf(o) ==
    CASE o = "noCopy" -> <<"noCopy.Lock">>
      [] o = "S" -> <<"S.m">>
      [] o = "P" -> <<"P.pm">>
      [] o = "R" -> <<"R.Exp", "R.init">>
      [] OTHER -> <<>>

Underlying(t) == IF t.k = "Named" THEN UnderlyingOf(t.obj) ELSE t
Dereference(t) == IF t.k = "Pointer" THEN t.elem ELSE t
CoreType(t) == Underlying(t)

-----------------------------------------------------------------------------
(* go/types: objects.  cls is the dynamic type of the types.Object, scope  *)
(* is "pkg" when Parent() is the package scope, "local" when it is a       *)
(* function scope and "none" when Parent() is nil (fields, methods, and    *)
(* objects named _, which go/types does not insert into any scope).        *)

Object(cls, name, scope, file, line, ty) ==
    [cls |-> cls, name |-> name, pkg |-> ThePkg, scope |-> scope, field |-> FALSE,
     embedded |-> FALSE, file |-> file, line |-> line, ty |-> ty]

Field(name, line, ty, emb) ==
    [cls |-> "Var", name |-> name, pkg |-> ThePkg, scope |-> "none", field |-> TRUE,
     embedded |-> emb, file |-> "a.go", line |-> line, ty |-> ty]

FuncT == Signature(<<>>, <<>>)

Objects ==
    \* predeclared
       ("int" :> [cls |-> "TypeName", name |-> "int", pkg |-> Universe, scope |-> "universe",
                  field |-> FALSE, embedded |-> FALSE, file |-> "", line |-> 0, ty |-> IntT])
    @@ ("iota" :> [cls |-> "Const", name |-> "iota", pkg |-> Universe, scope |-> "universe",
                  field |-> FALSE, embedded |-> FALSE, file |-> "", line |-> 0, ty |-> IntT])
    \* functions shared by the units
    @@ ("F" :> Object("Func", "F", "pkg", "a.go", 12, Signature(<<IntT>>, <<>>)))
    @@ ("F.p" :> Object("Var", "p", "local", "a.go", 12, IntT))
    @@ ("g" :> Object("Func", "g", "pkg", "a.go", 13, FuncT))
    \* unit "structs"
    @@ ("noCopy" :> Object("TypeName", "noCopy", "pkg", "a.go", 1, Named("noCopy")))
    @@ ("noCopy.Lock" :> Object("Func", "Lock", "none", "a.go", 2, FuncT))
    @@ ("U" :> Object("TypeName", "U", "pkg", "a.go", 3, Named("U")))
    @@ ("U.u" :> Field("u", 4, IntT, FALSE))
    @@ ("T" :> Object("TypeName", "T", "pkg", "a.go", 5, Named("T")))
    @@ ("T.x" :> Field("x", 6, IntT, FALSE))
    @@ ("T._" :> Field("_", 7, IntT, FALSE))
    @@ ("T.nc" :> Field("nc", 8, Named("noCopy"), FALSE))
    @@ ("T.noCopy" :> Field("noCopy", 9, Named("noCopy"), TRUE))
    @@ ("T.U" :> Field("U", 10, Named("U"), TRUE))
    \* unit "consts"
    @@ ("a" :> Object("Const", "a", "pkg", "a.go", 21, IntT))
    @@ ("b" :> Object("Const", "b", "pkg", "a.go", 22, IntT))
    @@ ("c" :> Object("Const", "c", "pkg", "a.go", 23, IntT))
    @@ ("_k" :> Object("Const", "_", "none", "a.go", 24, IntT))
    \* unit "conv"
    @@ ("A" :> Object("TypeName", "A", "pkg", "a.go", 31, Named("A")))
    @@ ("A.x" :> Field("x", 32, IntT, FALSE))
    @@ ("B" :> Object("TypeName", "B", "pkg", "a.go", 33, Named("B")))
    @@ ("B.y" :> Field("y", 34, IntT, FALSE))
    \* unit "vars"
    @@ ("v" :> Object("Var", "v", "pkg", "a.go", 41, IntT))
    @@ ("w" :> Object("Var", "w", "pkg", "a_test.go", 42, IntT))
    @@ ("_v" :> Object("Var", "_", "none", "a.go", 43, IntT))
    @@ ("TestX" :> Object("Func", "TestX", "pkg", "a_test.go", 44, FuncT))
    \* unit "ifaces"
    @@ ("I" :> Object("TypeName", "I", "pkg", "a.go", 51, Named("I")))
    @@ ("I.m" :> Object("Func", "m", "none", "a.go", 52, FuncT))
    @@ ("S" :> Object("TypeName", "S", "pkg", "a.go", 53, Named("S")))
    @@ ("S.m" :> Object("Func", "m", "none", "a.go", 54, FuncT))
    @@ ("S.m.s" :> Object("Var", "s", "local", "a.go", 54, Named("S")))
    @@ ("_f" :> Object("Func", "_", "none", "a.go", 55, FuncT))
    @@ ("_t" :> Object("TypeName", "_", "none", "a.go", 56, Named("_t")))
    @@ ("g._c" :> Object("Const", "_", "none", "a.go", 57, IntT))
    @@ ("g._v" :> Object("Var", "_", "none", "a.go", 58, IntT))
    @@ ("g._t" :> Object("TypeName", "_", "none", "a.go", 59, Named("g._t")))

    \* another package, q: type D struct{ X int }, imported by the unit "foreign"
    @@ ("q" :> Object("PkgName", "q", "file", "a.go", 60, Basic("invalid")))
    @@ ("q.D" :> [Object("TypeName", "D", "pkg", "d.go", 1, Named("q.D")) EXCEPT !.pkg = "q"])
    @@ ("q.D.X" :> [Field("X", 2, IntT, FALSE) EXCEPT !.pkg = "q", !.file = "d.go"])
    \* unit "foreign"
    @@ ("C" :> Object("TypeName", "c", "pkg", "a.go", 61, Named("C")))
    @@ ("C.X" :> Field("X", 62, IntT, FALSE))
    @@ ("u" :> Object("Var", "u", "pkg", "a.go", 63, Named("C")))
    \* unit "alias"
    @@ ("P" :> Object("TypeName", "pt", "pkg", "a.go", 71, Named("P")))
    @@ ("P.a" :> Field("a", 72, IntT, FALSE))
    @@ ("P.int" :> Field("int", 73, IntT, TRUE))
    @@ ("P.pm" :> Object("Func", "pm", "none", "a.go", 74, FuncT))
    @@ ("L" :> Object("TypeName", "l", "pkg", "a.go", 75, Named("P")))
    @@ ("M" :> Object("TypeName", "m", "pkg", "a.go", 76, Named("q.D")))
    \* unit "anon" (with U): var s struct{ a int; U }
    @@ ("s" :> Object("Var", "s", "pkg", "a.go", 81, Struct(<<"s.a", "s.U">>)))
    @@ ("s.a" :> Field("a", 82, IntT, FALSE))
    @@ ("s.U" :> Field("U", 83, Named("U"), TRUE))
    \* unit "embed": type x struct{ *x; F int }; type ma struct{ *mb };
    \* type mb struct{ *ma; F int }; type h struct{ *ma }; type k struct{ q.D }
    @@ ("X" :> Object("TypeName", "x", "pkg", "a.go", 91, Named("X")))
    @@ ("X.x" :> Field("x", 92, Pointer(Named("X")), TRUE))
    @@ ("X.F" :> Field("F", 93, IntT, FALSE))
    @@ ("MA" :> Object("TypeName", "ma", "pkg", "a.go", 94, Named("MA")))
    @@ ("MA.mb" :> Field("mb", 95, Pointer(Named("MB")), TRUE))
    @@ ("MB" :> Object("TypeName", "mb", "pkg", "a.go", 96, Named("MB")))
    @@ ("MB.ma" :> Field("ma", 97, Pointer(Named("MA")), TRUE))
    @@ ("MB.F" :> Field("F", 98, IntT, FALSE))
    @@ ("H" :> Object("TypeName", "h", "pkg", "a.go", 99, Named("H")))
    @@ ("H.ma" :> Field("ma", 100, Pointer(Named("MA")), TRUE))
    @@ ("K" :> Object("TypeName", "k", "pkg", "a.go", 101, Named("K")))
    @@ ("K.D" :> Field("D", 102, Named("q.D"), TRUE))
    \* unit "methods": type r struct{}; func (r) Exp() {}; func (r) init() {};
    \* func init() {}
    @@ ("R" :> Object("TypeName", "r", "pkg", "a.go", 111, Named("R")))
    @@ ("R.Exp" :> Object("Func", "Exp", "none", "a.go", 112, FuncT))
    @@ ("R.init" :> Object("Func", "init", "none", "a.go", 113, FuncT))
    @@ ("init" :> Object("Func", "init", "pkg", "a.go", 114, FuncT))
    \* unit "local": func g() { type lt struct{ x int }; g() }
    @@ ("g.lt" :> Object("TypeName", "lt", "local", "a.go", 121, Named("g.lt")))
    @@ ("g.lt.x" :> Field("x", 122, IntT, FALSE))

Objs == DOMAIN Objects

\* token.IsExported on the names of the modelled objects.
IsExported(name) == name \in {"F", "TestX", "Lock", "X", "D", "Exp"}

IsTestFile(file) == file = "a_test.go"    \* strings.HasSuffix(path, "_test.go")

-----------------------------------------------------------------------------
(* go/ast: the syntax tree, one record shape per node type.  Expression    *)
(* nodes carry what pass.TypesInfo records for them: obj (ObjectOf), ty    *)
(* (TypeOf) and selection (Selections).                                    *)

NilNode == [k |-> "nil"]
Ident(o) == [k |-> "Ident", obj |-> o]
BasicLit == [k |-> "BasicLit"]
ParenExpr(x, ty) == [k |-> "ParenExpr", x |-> x, ty |-> ty]
StarExpr(x, ty) == [k |-> "StarExpr", x |-> x, ty |-> ty]
UnaryExpr(x, ty) == [k |-> "UnaryExpr", x |-> x, ty |-> ty]
KeyValueExpr(key, value) == [k |-> "KeyValueExpr", key |-> key, value |-> value]
CompositeLit(typ, elts, ty) == [k |-> "CompositeLit", typ |-> typ, elts |-> elts, ty |-> ty]
CallExpr(fun, args, ellipsis) ==
    [k |-> "CallExpr", fun |-> fun, args |-> args, ellipsis |-> ellipsis]
Selection(recv, index, obj) == [recv |-> recv, index |-> index, obj |-> obj]
NoSelection == Selection(Basic("invalid"), <<>>, Nil)   \* not in TypesInfo.Selections
SelectorExpr(x, sel, selection) ==
    [k |-> "SelectorExpr", x |-> x, sel |-> sel, selection |-> selection]
AstField(names, typ) == [names |-> names, typ |-> typ]
FieldList(list) == [k |-> "FieldList", list |-> list]
FuncType(params, results) ==
    [k |-> "FuncType", typeparams |-> NilNode, params |-> params, results |-> results]
StructType(fields) == [k |-> "StructType", fields |-> fields]
InterfaceType(methods, ty) == [k |-> "InterfaceType", methods |-> methods, ty |-> ty]

ExprStmt(x) == [k |-> "ExprStmt", x |-> x]
AssignStmt(lhs, tok, rhs) == [k |-> "AssignStmt", lhs |-> lhs, tok |-> tok, rhs |-> rhs]
IncDecStmt(x) == [k |-> "IncDecStmt", x |-> x]
RangeStmt(key, value, x, body) ==
    [k |-> "RangeStmt", key |-> key, value |-> value, x |-> x, body |-> body]
DeclStmt(d) == [k |-> "DeclStmt", decl |-> d]
ReturnStmt(results) == [k |-> "ReturnStmt", results |-> results]

ValueSpec(names, typ, values, gap) ==
    [names |-> names, typ |-> typ, values |-> values, gap |-> gap]
TypeSpec(name, assign, typ) ==
    [name |-> name, assign |-> assign, typeparams |-> NilNode, typ |-> typ]
GenDecl(tok, specs) == [k |-> "GenDecl", tok |-> tok, specs |-> specs]
FuncDecl(name, recv, typ, body, cgo) ==
    [k |-> "FuncDecl", name |-> name, recv |-> recv, typ |-> typ, body |-> body,
     cgo |-> cgo]

\* pass.TypesInfo.TypeOf
TypeOf(n) ==
    CASE n.k = "Ident" -> Ob[n.obj].ty
      [] n.k \in {"CompositeLit", "InterfaceType", "ParenExpr", "StarExpr", "UnaryExpr"} ->
            n.ty
      [] n.k = "SelectorExpr" -> Ob[n.sel].ty
      [] OTHER -> IntT

-----------------------------------------------------------------------------
(* The graph.  The builder's functions do not read the graph; each is      *)
(* modelled by the sequence of g.use / g.see calls (and appends to         *)
(* g.namedTypes / g.interfaceTypes) it makes, in order, and Apply runs     *)
(* the calls on the graph.                                                 *)

EmptyGraph ==
    [Nodes |-> {}, uses |-> {}, owns |-> {}, namedTypes |-> <<>>, interfaceTypes |-> <<>>]

\* No modelled object is an instantiation of a generic one: Origin() is the object.
origin(obj) == obj

NodeOf(obj) == IF obj = Nil THEN Root ELSE origin(obj)

node(g, obj) ==
    IF obj = Nil THEN g ELSE [g EXCEPT !.Nodes = @ \cup {origin(obj)}]

see(g, obj, owner) ==
    LET g1 == node(g, obj)
    IN  IF owner # Nil
        THEN LET g2 == node(g1, owner)
             IN  [g2 EXCEPT !.owns = @ \cup {<<NodeOf(owner), NodeOf(obj)>>}]
        ELSE g1

ourIsIrrelevant(obj) == Ob[obj].cls = "PkgName"

use(g, used, by) ==
    IF Ob[used].pkg # ThePkg THEN g
    ELSE IF ourIsIrrelevant(used) THEN g
    ELSE LET g1 == node(g, used)
             g2 == node(g1, by)
         IN  [g2 EXCEPT !.uses = @ \cup {<<NodeOf(by), NodeOf(used)>>}]

UseCall(used, by) == <<[op |-> "use", a |-> used, b |-> by]>>
SeeCall(obj, owner) == <<[op |-> "see", a |-> obj, b |-> owner]>>
NamedTypesAppend(obj) == <<[op |-> "namedTypes", a |-> obj, b |-> Nil]>>
InterfaceTypesAppend(ty) == <<[op |-> "interfaceTypes", a |-> ty, b |-> Nil]>>

RECURSIVE Apply(_, _)
Apply(g, ops) ==
    IF ops = <<>> THEN g
    ELSE LET o == Head(ops)
             g1 == CASE o.op = "use" -> use(g, o.a, o.b)
                     [] o.op = "see" -> see(g, o.a, o.b)
                     [] o.op = "namedTypes" -> [g EXCEPT !.namedTypes = Append(@, o.a)]
                     [] o.op = "interfaceTypes" ->
                            [g EXCEPT !.interfaceTypes = Append(@, o.a)]
         IN  Apply(g1, Tail(ops))

isGlobal(obj) == Ob[obj].scope = "pkg"

\* for i := 0; i < st.NumFields(); i++ { g.use(st.Field(i), by) }
RECURSIVE useFields(_, _)
useFields(fs, by) ==
    IF fs = <<>> THEN <<>> ELSE UseCall(Head(fs), by) \o useFields(Tail(fs), by)

\* (5.1) for i := ... { g.use(stDst.Field(i), stSrc.Field(i)); g.use(stSrc.Field(i), stDst.Field(i)) }
RECURSIVE useEachOther(_, _)
useEachOther(dst, src) ==
    IF dst = <<>> THEN <<>>
    ELSE UseCall(Head(dst), Head(src)) \o UseCall(Head(src), Head(dst))
         \o useEachOther(Tail(dst), Tail(src))

readSelection(sel, by) ==
    LET RECURSIVE path(_, _)
        path(i, base) ==
            IF i >= Len(sel.index) THEN <<>>
            ELSE LET field == Underlying(Dereference(Underlying(base))).fields[sel.index[i] + 1]
                 IN  UseCall(field, by) \o path(i + 1, Ob[field].ty)
    IN  path(1, sel.recv) \o UseCall(sel.obj, by)

\* A conversion between struct types that charges the fields to the converting
\* function, as the conversions from and to unsafe.Pointer do.
conversionByUser(n, by) ==
    IF Len(n.args) # 1 \/ n.ellipsis THEN <<>>
    ELSE LET tSrc == CoreType(Dereference(TypeOf(n.args[1])))
             tDst == CoreType(Dereference(TypeOf(n.fun)))
         IN  (IF tSrc.k = "Struct" THEN useFields(tSrc.fields, by) ELSE <<>>)
             \o (IF tDst.k = "Struct" THEN useFields(tDst.fields, by) ELSE <<>>)

\* The conversion part of read's CallExpr case.
conversion(n, by) ==
    IF Len(n.args) # 1 \/ n.ellipsis THEN <<>>
    ELSE LET dst == TypeOf(n.fun)
             src == TypeOf(n.args[1])
             tSrc == CoreType(Dereference(src))
             tDst == CoreType(Dereference(dst))
             okSrc == tSrc.k = "Struct"
             okDst == tDst.k = "Struct"
         IN  IF okDst /\ okSrc THEN useEachOther(tDst.fields, tSrc.fields)
             ELSE IF okSrc /\ tDst = UnsafePointerT THEN useFields(tSrc.fields, by)
             ELSE IF okDst /\ tSrc = UnsafePointerT THEN useFields(tDst.fields, by)
             ELSE <<>>

\* A test for untagged literals that takes the empty literal for one.
untaggedOrEmpty(n, isStruct) ==
    isStruct /\ (Len(n.elts) = 0 \/ n.elts[1].k # "KeyValueExpr")

\* read's CompositeLit case: an untagged struct literal that specifies all fields
untagged(n, isStruct) == isStruct /\ Len(n.elts) # 0 /\ n.elts[1].k # "KeyValueExpr"

RECURSIVE read(_, _)
RECURSIVE readAll(_, _)
RECURSIVE readFieldList(_, _)
RECURSIVE readNames(_, _, _)
RECURSIVE readMethods(_, _)
RECURSIVE embeddedFieldWalk(_, _)

readSelectorExpr(sel, by) ==
    read(sel.x, by)
    \o (IF sel.selection = NoSelection THEN <<>> ELSE readSelection(sel.selection, by))

\* embeddedField: the object it returns ...
embeddedFieldObj(n) ==
    LET RECURSIVE find(_)
        find(m) == CASE m.k = "Ident" -> m.obj
                     [] m.k = "StarExpr" -> find(m.x)
                     [] m.k = "SelectorExpr" -> find(Ident(m.sel))
    IN  find(n)

\* ... and the calls it makes; nodes are the operands collected on the way.
embeddedFieldWalk(n, nodes) ==
    CASE n.k = "Ident" ->
            LET obj == n.obj
                typ == Dereference(TypeOf(n))
            IN  readAll(nodes, obj)
                \o (IF typ.k = "Named" THEN UseCall(typ.obj, obj) ELSE <<>>)
      [] n.k = "StarExpr" -> embeddedFieldWalk(n.x, nodes)
      [] n.k = "SelectorExpr" -> embeddedFieldWalk(Ident(n.sel), Append(nodes, n.x))

embeddedField(n) == embeddedFieldWalk(n, <<>>)

readAll(ns, by) ==
    IF ns = <<>> THEN <<>> ELSE read(Head(ns), by) \o readAll(Tail(ns), by)

\* for _, name := range field.Names { see; use; read(field.Type, obj) }
readNames(names, typ, by) ==
    IF names = <<>> THEN <<>>
    ELSE LET obj == Head(names)
         IN  SeeCall(obj, by) \o UseCall(obj, by) \o read(typ, obj)
             \o readNames(Tail(names), typ, by)

\* read's FieldList case: parameters, results and receivers
readFieldList(list, by) ==
    IF list = <<>> THEN <<>>
    ELSE LET field == Head(list)
         IN  (IF Len(field.names) = 0 THEN read(field.typ, by)
              ELSE readNames(field.names, field.typ, by))
             \o readFieldList(Tail(list), by)

\* read's StructType case: anonymous struct types
RECURSIVE readStructFields(_, _)
readStructFields(list, by) ==
    IF list = <<>> THEN <<>>
    ELSE LET field == Head(list)
         IN  (IF Len(field.names) = 0
              THEN embeddedField(field.typ) \o UseCall(embeddedFieldObj(field.typ), by)
              ELSE readNames(field.names, field.typ, by))
             \o readStructFields(Tail(list), by)

\* A loop over the methods of an interface that sees them without the use
\* edge of (8.3).
readMethodsUnused(list, by) ==
    IF list = <<>> THEN <<>>
    ELSE LET meth == Head(list)
         IN  (IF Len(meth.names) = 0 THEN read(meth.typ, by)
              ELSE SeeCall(meth.names[1], by) \o read(meth.typ, meth.names[1]))
             \o readMethods(Tail(list), by)

\* read's InterfaceType case, the loop over node.Methods.List
readMethods(list, by) ==
    IF list = <<>> THEN <<>>
    ELSE LET meth == Head(list)
         IN  (IF Len(meth.names) = 0 THEN read(meth.typ, by)
              ELSE LET obj == meth.names[1]
                   IN  SeeCall(obj, by) \o UseCall(obj, by) \o read(meth.typ, obj))
             \o readMethods(Tail(list), by)

read(n, by) ==
    CASE n.k = "nil" -> <<>>
      [] n.k = "Ident" -> UseCall(n.obj, by)
      [] n.k = "BasicLit" -> <<>>
      [] n.k \in {"UnaryExpr", "ParenExpr", "StarExpr"} -> read(n.x, by)
      [] n.k = "SelectorExpr" -> readSelectorExpr(n, by)
      [] n.k = "CompositeLit" ->
            LET typ == CoreType(TypeOf(n))
                isStruct == typ.k = "Struct"
            IN  read(n.typ, by)
                \o (IF untagged(n, isStruct) THEN useFields(typ.fields, by) ELSE <<>>)
                \o readAll(n.elts, by)
      [] n.k = "KeyValueExpr" -> read(n.key, by) \o read(n.value, by)
      [] n.k = "FuncType" ->
            read(n.typeparams, by) \o read(n.params, by) \o read(n.results, by)
      [] n.k = "FieldList" -> readFieldList(n.list, by)
      [] n.k = "StructType" -> readStructFields(n.fields, by)
      [] n.k = "InterfaceType" ->
            (IF Len(n.methods) # 0 THEN InterfaceTypesAppend(TypeOf(n)) ELSE <<>>)
            \o readMethods(n.methods, by)
      [] n.k = "CallExpr" ->
            read(n.fun, by) \o readAll(n.args, by) \o conversion(n, by)

RECURSIVE write(_, _)
write(n, by) ==
    CASE n.k = "nil" -> <<>>
      [] n.k = "Ident" ->
            LET obj == n.obj
            IN  IF obj = Nil THEN <<>>
                ELSE LET path == Ob[obj].file
                     IN  IF IsTestFile(path) /\ isGlobal(obj) THEN UseCall(obj, by) ELSE <<>>
      [] n.k = "SelectorExpr" -> readSelectorExpr(n, by)
      [] n.k = "StarExpr" -> read(n.x, by)
      [] n.k = "ParenExpr" -> write(n.x, by)

RECURSIVE writeAll(_, _)
writeAll(ns, by) ==
    IF ns = <<>> THEN <<>> ELSE write(Head(ns), by) \o writeAll(Tail(ns), by)

-----------------------------------------------------------------------------
(* namedType and its helpers *)

\* A sentinel test that asks for the method with the wrong receiver shape: a
\* struct with fields.
isNoCopyTypeWithFields(typ) ==
    LET st == Underlying(typ)
    IN  /\ st.k = "Struct" /\ Len(st.fields) # 0 /\ typ.k = "Named"
        /\ Len(MethodsOf(typ.obj)) = 1
        /\ Ob[MethodsOf(typ.obj)[1]].name = "Lock"

isNoCopyType(typ) ==
    LET st == Underlying(typ)
    IN  IF st.k # "Struct" THEN FALSE
        ELSE IF Len(st.fields) # 0 THEN FALSE
        ELSE IF typ.k # "Named" THEN FALSE
        ELSE IF Len(MethodsOf(typ.obj)) # 1 THEN FALSE
        ELSE LET meth == MethodsOf(typ.obj)[1]
                 sig == Ob[meth].ty
             IN  IF Ob[meth].name # "Lock" THEN FALSE
                 ELSE IF Len(sig.params) # 0 \/ Len(sig.results) # 0 THEN FALSE
                 ELSE TRUE

\* The closure hasExportedField of namedType.  Its map seen is threaded through
\* the calls: the result is <<answer, seen afterwards>>.
RECURSIVE hasExportedFieldIn(_, _)
RECURSIVE hasExportedFieldLoop(_, _, _)
hasExportedFieldIn(T, visited) ==
    LET t == Underlying(Dereference(T))
    IN  IF t.k # "Struct" THEN <<FALSE, visited>>
        ELSE IF t \in visited THEN <<FALSE, visited>>
        ELSE hasExportedFieldLoop(t, 1, visited \cup {t})

hasExportedFieldLoop(t, i, visited) ==
    IF i > Len(t.fields) THEN <<FALSE, visited>>
    ELSE LET field == t.fields[i]
         IN  IF IsExported(Ob[field].name) THEN <<TRUE, visited>>
             ELSE IF Ob[field].embedded
                  THEN LET r == hasExportedFieldIn(Ob[field].ty, visited)
                       IN  IF r[1] THEN r ELSE hasExportedFieldLoop(t, i + 1, r[2])
                  ELSE hasExportedFieldLoop(t, i + 1, visited)

\* A search that starts with an empty seen map.
hasExportedFieldUnmarked(st, T) == hasExportedFieldIn(T, {})[1]

\* seen starts as {the struct type being declared}, afresh for every field.
hasExportedField(st, T) == hasExportedFieldIn(T, {st})[1]

\* namedType, the names of one named field
RECURSIVE namedTypeNames(_, _, _)
namedTypeNames(names, ftyp, typ) ==
    IF names = <<>> THEN <<>>
    ELSE LET obj == Head(names)
         IN  SeeCall(obj, typ)
             \o read(ftyp, obj)
             \o (IF Ob[obj].name = "_" THEN UseCall(obj, typ)
                 ELSE IF IsExported(Ob[obj].name) THEN UseCall(obj, typ)
                 ELSE <<>>)
             \o (IF isNoCopyType(Ob[obj].ty) THEN UseCall(obj, typ) ELSE <<>>)
             \o namedTypeNames(Tail(names), ftyp, typ)

\* namedType, the loop over st.Fields.List
RECURSIVE namedTypeFields(_, _, _)
namedTypeFields(list, st, typ) ==
    IF list = <<>> THEN <<>>
    ELSE LET field == Head(list)
         IN  (IF Len(field.names) = 0
              THEN LET fieldVar == embeddedFieldObj(field.typ)
                   IN  embeddedField(field.typ)
                       \o (IF IsExported(Ob[fieldVar].name)
                           THEN UseCall(fieldVar, typ) ELSE <<>>)
                       \o (IF hasExportedField(st, Ob[fieldVar].ty)
                           THEN UseCall(fieldVar, typ) ELSE <<>>)
              ELSE namedTypeNames(field.names, field.typ, typ))
             \o namedTypeFields(Tail(list), st, typ)

namedType(typ, spec) ==
    IF spec.k = "StructType"
    THEN namedTypeFields(spec.fields, Underlying(Ob[typ].ty), typ)
    ELSE read(spec, typ)

-----------------------------------------------------------------------------
(* decl, stmt and block *)

\* astutil.GroupSpecs: the specs of one declaration, split where a spec does not
\* start on the line after the previous one (gap).
RECURSIVE GroupSpecs(_)
GroupSpecs(specs) ==
    IF specs = <<>> THEN <<>>
    ELSE LET rest == GroupSpecs(Tail(specs))
         IN  IF Len(specs) = 1 \/ specs[2].gap
             THEN <<(<<Head(specs)>>)>> \o rest
             ELSE <<(<<Head(specs)>> \o Head(rest))>> \o Tail(rest)

\* The names of the specs of one group, in order.
RECURSIVE GroupNames(_)
GroupNames(group) ==
    IF group = <<>> THEN <<>> ELSE Head(group).names \o GroupNames(Tail(group))

\* The chain of one group without the edge that closes it.
RECURSIVE constChain(_, _, _)
constChain(names, first, prev) ==
    IF names = <<>> THEN <<>>
    ELSE LET obj == Head(names)
         IN  IF Ob[obj].name = "_" THEN constChain(Tail(names), first, prev)
             ELSE IF first = Nil THEN constChain(Tail(names), obj, obj)
             ELSE UseCall(obj, prev) \o constChain(Tail(names), first, obj)

\* (10.1) the ring of one group: the loop with its variables first and prev
\* (last is prev when the loop ends), then the closing edge.
RECURSIVE constRing(_, _, _)
constRing(names, first, prev) ==
    IF names = <<>>
    THEN IF first # Nil /\ first # prev THEN UseCall(first, prev) ELSE <<>>
    ELSE LET obj == Head(names)
         IN  IF Ob[obj].name = "_" THEN constRing(Tail(names), first, prev)
             ELSE IF first = Nil THEN constRing(Tail(names), obj, obj)
             ELSE UseCall(obj, prev) \o constRing(Tail(names), first, obj)

RECURSIVE constGroups(_)
constGroups(groups) ==
    IF groups = <<>> THEN <<>>
    ELSE constRing(GroupNames(Head(groups)), Nil, Nil) \o constGroups(Tail(groups))

\* decl, token.CONST: the names of one spec
RECURSIVE constNames(_, _, _)
constNames(vspec, i, by) ==
    IF i > Len(vspec.names) THEN <<>>
    ELSE LET obj == vspec.names[i]
         IN  SeeCall(obj, by)
             \o read(vspec.typ, obj)
             \o (IF Len(vspec.values) # 0 THEN read(vspec.values[i], obj) ELSE <<>>)
             \o (IF Ob[obj].name = "_" THEN UseCall(obj, by)
                 ELSE IF IsExported(Ob[obj].name) /\ isGlobal(obj) THEN UseCall(obj, Nil)
                 ELSE <<>>)
             \o constNames(vspec, i + 1, by)

RECURSIVE constSpecs(_, _)
constSpecs(specs, by) ==
    IF specs = <<>> THEN <<>>
    ELSE constNames(Head(specs), 1, by) \o constSpecs(Tail(specs), by)

\* A declaration walk without rule (9.9).
blankUseDropped(obj, by) == <<>>

\* (9.9) objects named the blank identifier are used
blankUse(obj, by) == IF Ob[obj].name = "_" THEN UseCall(obj, by) ELSE <<>>

\* decl, token.VAR: the names of one spec
RECURSIVE varNames(_, _, _)
varNames(vspec, i, by) ==
    IF i > Len(vspec.names) THEN <<>>
    ELSE LET obj == vspec.names[i]
         IN  SeeCall(obj, by)
             \o read(vspec.typ, obj)
             \o (IF Len(vspec.names) = Len(vspec.values) THEN read(vspec.values[i], obj)
                 ELSE IF Len(vspec.values) # 0 THEN read(vspec.values[1], obj)
                 ELSE <<>>)
             \o (IF IsExported(Ob[obj].name) /\ isGlobal(obj) THEN UseCall(obj, Nil)
                 ELSE <<>>)
             \o blankUse(obj, by)
             \o varNames(vspec, i + 1, by)

RECURSIVE varSpecs(_, _)
varSpecs(specs, by) ==
    IF specs = <<>> THEN <<>>
    ELSE varNames(Head(specs), 1, by) \o varSpecs(Tail(specs), by)

\* decl, token.TYPE
RECURSIVE typeSpecs(_, _)
typeSpecs(specs, by) ==
    IF specs = <<>> THEN <<>>
    ELSE LET tspec == Head(specs)
             obj == tspec.name
         IN  SeeCall(obj, by)
             \o (IF ~tspec.assign THEN NamedTypesAppend(obj) ELSE <<>>)
             \o (IF IsExported(Ob[obj].name) /\ isGlobal(obj) THEN UseCall(obj, Nil)
                 ELSE <<>>)
             \o read(tspec.typeparams, obj)
             \o namedType(obj, tspec.typ)
             \o blankUse(obj, by)
             \o typeSpecs(Tail(specs), by)

\* g.pass.Pkg.Name(): no modelled package is package main, and none is the runtime.
PkgName == "p"

\* decl, FuncDecl: the uses by Root that the name decides
funcDeclRoot(d, obj) ==
    LET name == Ob[d.name].name
    IN  IF IsExported(name)
        THEN (IF d.recv = NilNode THEN UseCall(obj, Nil) ELSE <<>>)
        ELSE IF name = "init" THEN UseCall(obj, Nil)
        ELSE IF name = "main" /\ PkgName = "main" THEN UseCall(obj, Nil)
        ELSE <<>>

RECURSIVE decl(_, _)
RECURSIVE stmt(_, _)
RECURSIVE block(_, _)

decl(d, by) ==
    CASE d.k = "GenDecl" /\ d.tok = "IMPORT" -> <<>>
      [] d.k = "GenDecl" /\ d.tok = "CONST" ->
            constSpecs(d.specs, by) \o constGroups(GroupSpecs(d.specs))
      [] d.k = "GenDecl" /\ d.tok = "TYPE" -> typeSpecs(d.specs, by)
      [] d.k = "GenDecl" /\ d.tok = "VAR" -> varSpecs(d.specs, by)
      [] d.k = "FuncDecl" ->
            LET obj == d.name
            IN  SeeCall(obj, by)
                \o funcDeclRoot(d, obj)
                \o read(d.recv, obj)
                \o read(d.typ, obj)
                \o block(d.body, obj)
                \o (IF Ob[d.name].name = "_" THEN UseCall(obj, Nil) ELSE <<>>)
                \o (IF d.cgo THEN UseCall(obj, Nil) ELSE <<>>)

\* stmt, AssignStmt with token.DEFINE: the objects the statement declares
RECURSIVE seeDefined(_, _)
seeDefined(lhs, by) ==
    IF lhs = <<>> THEN <<>>
    ELSE (IF Head(lhs).obj # Nil THEN SeeCall(Head(lhs).obj, by) ELSE <<>>)
         \o seeDefined(Tail(lhs), by)

stmt(s, by) ==
    CASE s.k = "nil" -> <<>>
      [] s.k = "AssignStmt" ->
            (IF s.tok = "DEFINE" THEN seeDefined(s.lhs, by) ELSE <<>>)
            \o writeAll(s.lhs, by)
            \o readAll(s.rhs, by)
      [] s.k = "BlockStmt" -> block(s.list, by)
      [] s.k = "DeclStmt" -> decl(s.decl, by)
      [] s.k = "ExprStmt" -> read(s.x, by)
      [] s.k = "IncDecStmt" -> write(s.x, by)
      [] s.k = "RangeStmt" ->
            write(s.key, by) \o write(s.value, by) \o read(s.x, by) \o block(s.body, by)
      [] s.k = "ReturnStmt" -> readAll(s.results, by)

block(list, by) ==
    IF list = <<>> THEN <<>> ELSE stmt(Head(list), by) \o block(Tail(list), by)

-----------------------------------------------------------------------------
(* entry: the method sets and the suppression overlay *)

\* types.NewMethodSet(named.Type()) and types.NewMethodSet(types.NewPointer(named.Type()))
\* of the modelled named types: the same selections in both.
MethodSet(named, ptr) ==
    CASE named = "noCopy" -> <<Selection(Named("noCopy"), <<0>>, "noCopy.Lock")>>
      [] named = "T" -> <<Selection(Named("T"), <<3, 0>>, "noCopy.Lock")>>
      [] named = "S" -> <<Selection(Named("S"), <<0>>, "S.m")>>
      [] named = "I" -> <<Selection(Named("I"), <<0>>, "I.m")>>
      [] named = "P" -> <<Selection(Named("P"), <<0>>, "P.pm")>>
      [] named = "R" -> << Selection(Named("R"), <<0>>, "R.Exp"),
                           Selection(Named("R"), <<1>>, "R.init") >>
      [] OTHER -> <<>>

\* implements (implements.go): the selections by which the method set ms has
\* every method of iface, or FALSE when one is missing.
implements(V, iface, ms) ==
    LET Lookup(m) == {i \in 1..Len(ms) : /\ Ob[ms[i].obj].name = Ob[m].name
                                         /\ Ob[ms[i].obj].ty = Ob[m].ty}
        RECURSIVE sels(_)
        sels(i) == IF i > Len(iface.methods) THEN <<>>
                   ELSE LET j == CHOOSE j \in Lookup(iface.methods[i]) : TRUE
                        IN  <<ms[j]>> \o sels(i + 1)
    IN  IF Len(iface.methods) = 0 THEN <<(<<>>), TRUE>>
        ELSE IF Underlying(V).k = "Interface" THEN <<(<<>>), TRUE>>
        ELSE IF \E i \in 1..Len(iface.methods) : Lookup(iface.methods[i]) = {}
             THEN <<(<<>>), FALSE>>
        ELSE <<sels(1), TRUE>>

RECURSIVE readSelections(_, _)
readSelections(sels, by) ==
    IF sels = <<>> THEN <<>>
    ELSE readSelection(Head(sels), by) \o readSelections(Tail(sels), by)

\* processMethodSet, the loop over the method set
RECURSIVE exportedMethods(_, _, _)
exportedMethods(ms, i, named) ==
    IF i > Len(ms) THEN <<>>
    ELSE (IF IsExported(Ob[ms[i].obj].name) THEN readSelection(ms[i], named) ELSE <<>>)
         \o exportedMethods(ms, i + 1, named)

\* processMethodSet, the loop over g.interfaceTypes
RECURSIVE implemented(_, _, _)
implemented(ifaces, named, ms) ==
    IF ifaces = <<>> THEN <<>>
    ELSE LET r == implements(Ob[named].ty, Head(ifaces), ms)
         IN  (IF r[2] THEN readSelections(r[1], named) ELSE <<>>)
             \o implemented(Tail(ifaces), named, ms)

processMethodSet(g, named, ms) ==
    exportedMethods(ms, 1, named)
    \o (IF Underlying(Ob[named].ty).k # "Interface"
        THEN implemented(g.interfaceTypes, named, ms) ELSE <<>>)

RECURSIVE methodSets(_, _)
methodSets(g, nameds) ==
    IF nameds = <<>> THEN <<>>
    ELSE processMethodSet(g, Head(nameds), MethodSet(Head(nameds), FALSE))
         \o processMethodSet(g, Head(nameds), MethodSet(Head(nameds), TRUE))
         \o methodSets(g, Tail(nameds))

\* types.TypeName.IsAlias: the type names declared with type l = pt and
\* type m = q.D; the Type() of such a name is the named type it stands for.
IsAlias(obj) == obj \in {"L", "M"}

FileIgnore == -1

\* A suppression loop that gives the Root edge to the annotated object alone.
ignoreObjAlone(obj, ign) ==
    IF [file |-> Ob[obj].file, line |-> Ob[obj].line] \in ign
       \/ [file |-> Ob[obj].file, line |-> FileIgnore] \in ign
    THEN UseCall(obj, Nil) ELSE <<>>

\* the body of the loop over g.Nodes for one object
ignoreObj(obj, ign) ==
    LET key1 == [file |-> Ob[obj].file, line |-> Ob[obj].line]
        key2 == [file |-> Ob[obj].file, line |-> FileIgnore]
        ok == key1 \in ign \/ key2 \in ign
        typ == Ob[obj].ty
    IN  IF ~ok THEN <<>>
        ELSE UseCall(obj, Nil)
             \o (IF Ob[obj].cls # "TypeName" THEN <<>>
                 ELSE IF IsAlias(obj) /\ typ.k = "Named" /\ Ob[typ.obj].pkg # Ob[obj].pkg
                      THEN <<>>
                 ELSE (IF typ.k = "Named" THEN useFields(MethodsOf(typ.obj), Nil)
                       ELSE <<>>)
                      \o (IF Underlying(typ).k = "Struct"
                          THEN useFields(Underlying(typ).fields, Nil) ELSE <<>>))

\* The loop over g.Nodes.  The nodes it inserts are fields it has just given a
\* Root edge, so visiting them or not changes nothing; the order is immaterial
\* to the sets of edges.
RECURSIVE ignoreNodes(_, _)
ignoreNodes(objs, ign) ==
    IF objs = {} THEN <<>>
    ELSE LET obj == CHOOSE o \in objs : TRUE
         IN  ignoreObj(obj, ign) \o ignoreNodes(objs \ {obj}, ign)

ignoreAll(g, ign) == IF ign # {} THEN ignoreNodes(g.Nodes, ign) ELSE <<>>

-----------------------------------------------------------------------------
(* results *)

\* The successors of n when an owned node counts as a used one.
SuccOrOwned(g, n) == {e[2] : e \in {d \in g.uses \cup g.owns : d[1] = n}}

Succ(g, n) == {e[2] : e \in {d \in g.uses : d[1] = n}}
Owned(g, n) == {e[2] : e \in {d \in g.owns : d[1] = n}}

\* A colouring that marks a node and its direct successors only.
colorShallow(g, S, n) == IF n \in S THEN S ELSE S \cup {n} \cup Succ(g, n)

\* color: the set of seen nodes after g.color(n), given the set before
RECURSIVE color(_, _, _)
RECURSIVE colorEach(_, _, _)
color(g, S, n) ==
    IF n \in S THEN S ELSE colorEach(g, S \cup {n}, Succ(g, n))

colorEach(g, S, ns) ==
    IF ns = {} THEN S
    ELSE LET n == CHOOSE m \in ns : TRUE
         IN  colorEach(g, color(g, S, n), ns \ {n})

\* quieten: the set of quiet nodes after quieten(n), given the set before
RECURSIVE quieten(_, _, _)
RECURSIVE quietenEach(_, _, _)
quieten(g, Q, n) ==
    LET Q1 == Q \cup {n}     \* n.quiet = true
    IN  IF Owned(g, n) = {} THEN Q1 ELSE quietenEach(g, Q1, Owned(g, n))

quietenEach(g, Q, ns) ==
    IF ns = {} THEN Q
    ELSE LET n == CHOOSE m \in ns : TRUE
         IN  quietenEach(g, quieten(g, Q, n), ns \ {n})

\* the first loop of results over g.Nodes
RECURSIVE quietenUnseen(_, _, _, _)
quietenUnseen(g, S, Q, ns) ==
    IF ns = {} THEN Q
    ELSE LET n == CHOOSE m \in ns : TRUE
         IN  quietenUnseen(g, S, IF n \in S THEN Q ELSE quietenEach(g, Q, Owned(g, n)),
                           ns \ {n})

\* the second loop of results: the nodes it does not report
skipped(obj) ==
    \/ /\ Ob[obj].cls = "Var"
       /\ \/ Ob[obj].name = "" /\ Ob[obj].field
          \/ ~Ob[obj].field /\ Ob[obj].scope # "pkg"
    \/ Ob[obj].pkg # ThePkg

\* A report that ignores the quiet flag.
resultsUnusedLoud(g, S, Q) == {n \in g.Nodes : ~skipped(n) /\ n \notin S}

resultsUsed(g, S, Q) == {n \in g.Nodes : ~skipped(n) /\ n \in S}
resultsUnused(g, S, Q) == {n \in g.Nodes : ~skipped(n) /\ n \notin S /\ n \notin Q}

-----------------------------------------------------------------------------
(* The analysed packages.  Each unit is a list of top-level declarations;  *)
(* a function's body is any choice of at most MaxStmts statements of its   *)
(* pool, the constant declaration any layout of the constants.             *)

Units == {"structs", "consts", "conv", "vars", "ifaces", "foreign", "alias", "anon",
          "embed", "methods", "local", "ring", "link", "recur"}

UnitDecls(u) ==
    CASE u = "structs" -> <<"noCopy", "noCopy.Lock", "U", "T", "F", "g">>
      [] u = "consts" -> <<"const", "F">>
      [] u = "conv" -> <<"A", "B", "F", "g">>
      [] u = "vars" -> <<"v", "w", "_v", "F", "TestX">>
      [] u = "ifaces" -> <<"I", "S", "S.m", "_f", "_t", "F", "g">>
      [] u = "foreign" -> <<"C", "u", "F">>
      [] u = "alias" -> <<"P", "P.pm", "L", "M", "F">>
      [] u = "anon" -> <<"U", "s", "F">>
      [] u = "embed" -> <<"X", "MA", "MB", "H", "K", "F">>
      [] u = "methods" -> <<"R", "R.Exp", "R.init", "init", "F">>
      [] u = "local" -> <<"F", "g">>
      [] u = "ring" -> <<"const", "F">>
      [] u = "link" -> <<"A", "B", "F">>
      [] u = "recur" -> <<"X", "MA", "MB", "F">>

Blank == Ident(Nil)                                   \* _ as an operand: no object
Discard(x) == AssignStmt(<<Blank>>, "ASSIGN", <<x>>)  \* _ = x
Assign(v) == AssignStmt(<<Ident(v)>>, "ASSIGN", <<BasicLit>>)            \* v = 1
RangeOver(v) == RangeStmt(Ident(v), NilNode, BasicLit, <<>>)             \* for v = range 3 {}
Lit(t, elts) == CompositeLit(Ident(t), elts, Named(t))                   \* t{...}
Call(f) == ExprStmt(CallExpr(Ident(f), <<>>, FALSE))                     \* f()
Select(t, index, f) ==                                                   \* t{}.f
    SelectorExpr(Lit(t, <<>>), f, Selection(Named(t), index, f))
Convert(dst, src) == CallExpr(Ident(dst), <<Lit(src, <<>>)>>, FALSE)     \* dst(src{})
ConvertPtr(dst, src) ==                                                  \* (*dst)(&src{})
    CallExpr(ParenExpr(StarExpr(Ident(dst), Pointer(Named(dst))), Pointer(Named(dst))),
             <<UnaryExpr(Lit(src, <<>>), Pointer(Named(src)))>>, FALSE)

\* q.D{}: the type is a qualified identifier, which has no selection
ForeignLit ==
    CompositeLit(SelectorExpr(Ident("q"), "q.D", NoSelection), <<>>, Named("q.D"))

\* The constants the walk has declared so far that a function may name.
DeclaredConsts(p) ==
    {n \in {"a", "b", "c"} :
        \E i \in 1..Len(p) : /\ p[i].k = "GenDecl"
                             /\ \E j \in 1..Len(p[i].specs) :
                                    \E m \in 1..Len(p[i].specs[j].names) :
                                        p[i].specs[j].names[m] = n}

NamedField(f) == AstField(<<f>>, Ident("int"))

RECURSIVE ReadEach(_)
ReadEach(ns) ==
    IF ns = <<>> THEN <<>> ELSE <<Discard(Ident(Head(ns)))>> \o ReadEach(Tail(ns))

Pool(u, f, p) ==
    CASE u = "structs" /\ f = "F" ->
            << Call("g"),
               Discard(Lit("T", <<>>)),
               Discard(Lit("T", <<KeyValueExpr(Ident("T.nc"), Lit("noCopy", <<>>))>>)),
               Discard(Lit("T", <<BasicLit, BasicLit, Lit("noCopy", <<>>),
                                  Lit("noCopy", <<>>), Lit("U", <<>>)>>)),
               Discard(Select("T", <<0>>, "T.x")) >>
      [] u = "structs" /\ f = "g" ->
            << Discard(Lit("T", <<>>)),
               Discard(SelectorExpr(Lit("T", <<>>), "U.u",
                                    Selection(Named("T"), <<4, 0>>, "U.u"))) >>
      [] u \in {"consts", "ring"} /\ f = "F" ->
            ReadEach(SelectSeq(<<"a", "b", "c">>, LAMBDA n : n \in DeclaredConsts(p)))
      [] u = "conv" /\ f = "F" ->
            << Call("g"),
               Discard(Convert("B", "A")),
               Discard(Select("A", <<0>>, "A.x")),
               Discard(Select("B", <<0>>, "B.y")),
               Discard(Lit("A", <<BasicLit>>)) >>
      [] u = "conv" /\ f = "g" ->
            << Discard(Convert("B", "A")),
               Discard(ConvertPtr("A", "B")),
               Discard(Lit("A", <<>>)) >>
      [] u = "vars" /\ f = "F" ->
            << Assign("v"), Assign("w"), IncDecStmt(Ident("v")), RangeOver("w") >>
      [] u = "vars" /\ f = "TestX" ->
            << Assign("v"), Assign("w"), IncDecStmt(Ident("w")), RangeOver("v"),
               Discard(Ident("v")) >>
      [] u = "ifaces" /\ f = "F" ->
            << Call("g"),
               Discard(Lit("S", <<>>)),
               Discard(CallExpr(Ident("I"), <<Lit("S", <<>>)>>, FALSE)) >>
      [] u = "alias" /\ f = "F" ->
            << Discard(CompositeLit(Ident("L"), <<>>, Named("P"))),
               Discard(CompositeLit(Ident("M"), <<>>, Named("q.D"))) >>
      [] u = "anon" /\ f = "F" ->
            << Discard(Ident("s")), Discard(Lit("U", <<>>)) >>
      [] u = "embed" /\ f = "F" ->
            << Discard(Lit("X", <<>>)), Discard(Lit("H", <<>>)), Discard(Lit("MB", <<>>)) >>
      [] u = "methods" /\ f = "F" ->
            << Discard(Lit("R", <<>>)) >>
      [] u = "local" /\ f = "F" ->
            << Call("g"), Call("F") >>
      [] u = "local" /\ f = "g" ->
            << DeclStmt(GenDecl("TYPE", <<TypeSpec("g.lt", FALSE,
                                                   StructType(<<NamedField("g.lt.x")>>))>>)),
               Call("g") >>
      [] u = "link" /\ f = "F" ->
            << Discard(Convert("B", "A")), Discard(ConvertPtr("A", "B")) >>
      [] u = "recur" /\ f = "F" ->
            << Discard(Lit("X", <<>>)), Discard(Lit("MB", <<>>)) >>
      [] u = "foreign" /\ f = "F" ->
            << Discard(Ident("u")), Discard(Lit("C", <<>>)) >>
      [] u = "ifaces" /\ f = "g" ->
            << DeclStmt(GenDecl("CONST", <<ValueSpec(<<"g._c">>, NilNode, <<BasicLit>>, FALSE)>>)),
               DeclStmt(GenDecl("VAR", <<ValueSpec(<<"g._v">>, NilNode, <<BasicLit>>, FALSE)>>)),
               DeclStmt(GenDecl("TYPE", <<TypeSpec("g._t", FALSE, StructType(<<>>))>>)),
               Discard(Lit("S", <<>>)) >>
      [] OTHER -> <<>>

\* The statements of pool at the positions in S, in order.
RECURSIVE SubSeq2(_, _, _)
SubSeq2(pool, S, i) ==
    IF i > Len(pool) THEN <<>>
    ELSE (IF i \in S THEN <<pool[i]>> ELSE <<>>) \o SubSeq2(pool, S, i + 1)

Bodies(pool) ==
    {SubSeq2(pool, S, 1) : S \in {X \in SUBSET (1..Len(pool)) : Cardinality(X) <= MaxStmts}}

NoParams == FuncType(FieldList(<<>>), NilNode)

\* The declarations of the functions, without their bodies.
FuncDecls(f, body, cgo) ==
    CASE f = "F" ->      \* func F(p int) { ... }
            FuncDecl("F", NilNode,
                     FuncType(FieldList(<<AstField(<<"F.p">>, Ident("int"))>>), NilNode),
                     body, cgo)
      [] f = "noCopy.Lock" ->      \* func (noCopy) Lock() {}
            FuncDecl(f, FieldList(<<AstField(<<>>, Ident("noCopy"))>>), NoParams, body, cgo)
      [] f \in {"R.Exp", "R.init"} ->      \* func (r) Exp() {}, func (r) init() {}
            FuncDecl(f, FieldList(<<AstField(<<>>, Ident("R"))>>), NoParams, body, cgo)
      [] f = "P.pm" ->      \* func (pt) pm() {}
            FuncDecl(f, FieldList(<<AstField(<<>>, Ident("P"))>>), NoParams, body, cgo)
      [] f = "S.m" ->      \* func (s S) m() {}
            FuncDecl(f, FieldList(<<AstField(<<"S.m.s">>, Ident("S"))>>), NoParams, body, cgo)
      [] OTHER ->          \* func g() { ... }, func TestX() { ... }, func _() {}
            FuncDecl(f, NilNode, NoParams, body, cgo)

FuncChoices(u, f, p) ==
    {FuncDecls(f, body, cgo) :
        body \in Bodies(Pool(u, f, p)),
        cgo \in IF u = "ifaces" /\ f = "g" THEN BOOLEAN ELSE {FALSE}}

\* the embedded field f declared as *t
EmbeddedPtr(f, t) == AstField(<<>>, StarExpr(Ident(f), Pointer(Named(t))))

TypeExpr(t) ==
    CASE t = "T" ->
            StructType(<< NamedField("T.x"), NamedField("T._"),
                          AstField(<<"T.nc">>, Ident("noCopy")),
                          AstField(<<>>, Ident("T.noCopy")),
                          AstField(<<>>, Ident("T.U")) >>)
      [] t = "U" -> StructType(<<NamedField("U.u")>>)
      [] t = "A" -> StructType(<<NamedField("A.x")>>)
      [] t = "B" -> StructType(<<NamedField("B.y")>>)
      [] t = "I" -> InterfaceType(<<AstField(<<"I.m">>, NoParams)>>, Interface(<<"I.m">>))
      [] t = "C" -> StructType(<<NamedField("C.X")>>)
      [] t = "P" -> StructType(<<NamedField("P.a"), AstField(<<>>, Ident("P.int"))>>)
      [] t = "L" -> Ident("P")
      [] t = "R" -> StructType(<<>>)
      [] t = "X" -> StructType(<<EmbeddedPtr("X.x", "X"), NamedField("X.F")>>)
      [] t = "MA" -> StructType(<<EmbeddedPtr("MA.mb", "MB")>>)
      [] t = "MB" -> StructType(<<EmbeddedPtr("MB.ma", "MA"), NamedField("MB.F")>>)
      [] t = "H" -> StructType(<<EmbeddedPtr("H.ma", "MA")>>)
      [] t = "K" -> StructType(<<AstField(<<>>, SelectorExpr(Ident("q"), "K.D", NoSelection))>>)
      [] t = "M" -> SelectorExpr(Ident("q"), "q.D", NoSelection)
      [] OTHER -> StructType(<<>>)

TypeChoices(t) == {GenDecl("TYPE", <<TypeSpec(t, IsAlias(t), TypeExpr(t))>>)}

VarChoices(v) ==
    IF v = "u"      \* var u = C(q.D{}), or var u C
    THEN {GenDecl("VAR", <<ValueSpec(<<v>>, NilNode,
                                     <<CallExpr(Ident("C"), <<ForeignLit>>, FALSE)>>, FALSE)>>),
          GenDecl("VAR", <<ValueSpec(<<v>>, Ident("C"), <<>>, FALSE)>>)}
    ELSE IF v = "s"      \* var s struct{ a int; U }
    THEN {GenDecl("VAR", <<ValueSpec(<<v>>,
                                     StructType(<<NamedField("s.a"),
                                                  AstField(<<>>, Ident("s.U"))>>),
                                     <<>>, FALSE)>>)}
    ELSE
    {GenDecl("VAR", <<ValueSpec(<<v>>, Ident("int"), <<>>, FALSE)>>),
     GenDecl("VAR", <<ValueSpec(<<v>>, NilNode, <<BasicLit>>, FALSE)>>)}

ConstPool == {"a", "b", "c", "_k"}

\* The orders in which a declaration can list some of the constants.
ConstOrders ==
    {ns \in UNION {[1..n -> ConstPool] : n \in 1..Cardinality(ConstPool)} :
        \A i, j \in DOMAIN ns : i # j => ns[i] # ns[j]}

\* One spec per constant from position i on, the first of the declaration with
\* the value iota, the others with none.
RECURSIVE SingleSpecs(_, _, _)
SingleSpecs(ns, gaps, i) ==
    IF i > Len(ns) THEN <<>>
    ELSE <<ValueSpec(<<ns[i]>>, NilNode, IF i = 1 THEN <<Ident("iota")>> ELSE <<>>,
                     i > 1 /\ gaps[i])>>
         \o SingleSpecs(ns, gaps, i + 1)

\* const ( ... ): the constants ns, a blank line before those with a gap; with
\* pair, the first two share a spec (const a, b = iota, iota).
ConstLayout(ns, gaps, pair) ==
    IF pair /\ Len(ns) >= 2
    THEN <<ValueSpec(<<ns[1], ns[2]>>, NilNode, <<Ident("iota"), Ident("iota")>>, FALSE)>>
         \o SingleSpecs(ns, gaps, 3)
    ELSE SingleSpecs(ns, gaps, 1)

\* const ( a = iota; b; c ), with or without a blank line before c, the first
\* two sharing a spec or not.
RingChoices ==
    {GenDecl("CONST", ConstLayout(<<"a", "b", "c">>,
                                  [i \in 1..Cardinality(ConstPool) |-> gap /\ i = 3], pair)) :
        gap \in BOOLEAN, pair \in BOOLEAN}

ConstChoices ==
    {GenDecl("CONST", ConstLayout(ns, gaps, pair)) :
        <<ns, gaps>> \in {x \in ConstOrders \X [1..Cardinality(ConstPool) -> BOOLEAN] :
                            \A i \in 1..Cardinality(ConstPool) :
                                (i = 1 \/ i > Len(x[1])) => ~x[2][i]},
        pair \in BOOLEAN}

Pos(o, l) == [file |-> Ob[o].file, line |-> l]

\* The places a //lint:ignore U1000 (a line) or //lint:file-ignore U1000 directive
\* can stand in each unit.
IgnorePool(u) ==
    CASE u = "structs" -> {Pos("T", Ob["T"].line), Pos("T.x", Ob["T.x"].line),
                           Pos("T.U", Ob["T.U"].line), Pos("T", FileIgnore)}
      [] u = "consts" -> {Pos("a", Ob["a"].line)}
      [] u = "conv" -> {Pos("B.y", Ob["B.y"].line), Pos("B", FileIgnore)}
      [] u = "vars" -> {Pos("v", Ob["v"].line)}
      [] u = "ifaces" -> {Pos("I.m", Ob["I.m"].line), Pos("g._c", Ob["g._c"].line)}
      [] u = "foreign" -> {Pos("C", FileIgnore)}
      [] u = "anon" -> {Pos("s.U", Ob["s.U"].line)}
      [] u = "embed" -> {Pos("MA", Ob["MA"].line)}
      [] u = "methods" -> {Pos("R", Ob["R"].line)}
      [] u = "local" -> {Pos("g.lt", Ob["g.lt"].line)}
      [] u = "ring" -> {Pos("a", Ob["a"].line)}
      [] u = "link" -> {Pos("B.y", Ob["B.y"].line)}
      [] u = "recur" -> {Pos("MA", Ob["MA"].line)}
      [] u = "alias" -> {Pos("P", Ob["P"].line), Pos("L", Ob["L"].line),
                         Pos("M", Ob["M"].line), Pos("P.int", Ob["P.int"].line),
                         Pos("P", FileIgnore)}

IgnoreChoices(u) == {X \in SUBSET IgnorePool(u) : Cardinality(X) <= MaxIgnores}

-----------------------------------------------------------------------------
(* run: entry (the walk over the declarations, the method sets, the        *)
(* suppression overlay), then results.                                     *)

Init ==
    /\ unit \in Units
    /\ Ob = Objects
    /\ pc = "decls"
    /\ idx = 1
    /\ prog = <<>>
    /\ ignores = {}
    /\ G = EmptyGraph
    /\ seen = {}
    /\ quiet = {}
    /\ Used = {}
    /\ Unused = {}
    /\ stack = <<>>
    /\ todo = {}

Slot == UnitDecls(unit)[idx]
SlotCls == IF Slot \in Objs THEN Ob[Slot].cls ELSE "Const"

\* g.decl(decl, nil) for the next declaration of the package
Walk(d) ==
    /\ G' = Apply(G, decl(d, Nil))
    /\ prog' = Append(prog, d)
    /\ idx' = idx + 1
    /\ pc' = IF idx = Len(UnitDecls(unit)) THEN "methodsets" ELSE "decls"
    /\ UNCHANGED <<unit, Ob, ignores, seen, quiet, Used, Unused, stack, todo>>

DeclFunc ==
    /\ pc = "decls"
    /\ SlotCls = "Func"
    /\ \E d \in FuncChoices(unit, Slot, prog) : Walk(d)

DeclType ==
    /\ pc = "decls"
    /\ SlotCls = "TypeName"
    /\ \E d \in TypeChoices(Slot) : Walk(d)

DeclVar ==
    /\ pc = "decls"
    /\ SlotCls = "Var"
    /\ \E d \in VarChoices(Slot) : Walk(d)

DeclConst ==
    /\ pc = "decls"
    /\ SlotCls = "Const"
    /\ \E d \in (IF unit = "ring" THEN RingChoices ELSE ConstChoices) : Walk(d)

EntryMethodSets ==
    /\ pc = "methodsets"
    /\ G' = Apply(G, methodSets(G, G.namedTypes))
    /\ pc' = "ignores"
    /\ UNCHANGED <<unit, Ob, idx, prog, ignores, seen, quiet, Used, Unused, stack, todo>>

EntryIgnores ==
    /\ pc = "ignores"
    /\ \E ign \in IgnoreChoices(unit) :
          /\ ignores' = ign
          /\ G' = Apply(G, ignoreAll(G, ign))
    /\ pc' = "results"
    /\ UNCHANGED <<unit, Ob, idx, prog, seen, quiet, Used, Unused, stack, todo>>

Results ==
    /\ pc = "results"
    /\ LET S == color(G, {}, Root)
           Q == quietenUnseen(G, S, {}, G.Nodes)
       IN  /\ seen' = S
           /\ quiet' = Q
           /\ Used' = resultsUsed(G, S, Q)
           /\ Unused' = resultsUnused(G, S, Q)
    /\ pc' = "done"
    /\ UNCHANGED <<unit, Ob, idx, prog, ignores, G, stack, todo>>

Next == DeclFunc \/ DeclType \/ DeclVar \/ DeclConst \/ EntryMethodSets \/ EntryIgnores
        \/ Results

Spec == Init /\ [][Next]_vars

-----------------------------------------------------------------------------
(* run, one step at a time: the walk as above, then every iteration of the *)
(* three loops over the map g.Nodes and every call and return of color and *)
(* quieten as a step of its own.  A range over a map produces its keys in  *)
(* an unspecified order, and a key inserted during the range is produced   *)
(* or skipped; a range over a slice (n.uses, n.owns) is taken in any order *)
(* too, since the graph keeps the edges as sets.                           *)

MaxDepth == 8      \* the deepest call stack followed

\* The packages run step by step.
StepUnits == {"ring", "link", "recur", "alias", "anon", "methods", "local"}

Frame(n, rest) == [n |-> n, rest |-> rest]
Top == stack[Len(stack)]
Pop == SubSeq(stack, 1, Len(stack) - 1)
\* the frame on top has ranged over m
Advance(m) == [stack EXCEPT ![Len(stack)].rest = @ \ {m}]

\* A color that never returns at once.
colorReturnsNever(S, n) == FALSE

\* color: if n.seen { return }
colorReturnsAtOnce(S, n) == n \in S

\* A range that ends after its first iteration.
rangeStops(keys, k, inserted) == {}

\* range over g.Nodes: the keys still to produce after k, when the iteration
\* has inserted keys of which the range will produce those of inserted
rangeRest(keys, k, inserted) == (keys \ {k}) \cup inserted

StepInit == Init /\ unit \in StepUnits

\* entry: ignores is built; if len(ignores) > 0, the range over g.Nodes begins
IgnoresBuilt ==
    /\ pc = "ignores"
    /\ \E ign \in IgnoreChoices(unit) :
          /\ ignores' = ign
          /\ todo' = IF ign # {} THEN G.Nodes ELSE {}
    /\ pc' = "ignoreloop"
    /\ UNCHANGED <<unit, Ob, idx, prog, G, seen, quiet, Used, Unused, stack>>

\* entry: one iteration of the range over g.Nodes; g.use may insert nodes
IgnoreNode ==
    /\ pc = "ignoreloop"
    /\ \E obj \in todo :
          LET g1 == Apply(G, ignoreObj(obj, ignores))
          IN  /\ G' = g1
              /\ \E more \in SUBSET (g1.Nodes \ G.Nodes) : todo' = rangeRest(todo, obj, more)
    /\ UNCHANGED <<unit, Ob, pc, idx, prog, ignores, seen, quiet, Used, Unused, stack>>

\* entry returns; results: g.color(g.Root)
ColorRoot ==
    /\ pc = "ignoreloop"
    /\ todo = {}
    /\ seen' = {Root}
    /\ stack' = <<Frame(Root, Succ(G, Root))>>
    /\ pc' = "color"
    /\ UNCHANGED <<unit, Ob, idx, prog, ignores, G, quiet, Used, Unused, todo>>

\* color: the call g.color(m) for the next m of n.uses
ColorCall ==
    /\ pc = "color"
    /\ stack # <<>>
    /\ Len(stack) < MaxDepth
    /\ \E m \in Top.rest :
          IF colorReturnsAtOnce(seen, m)
          THEN /\ stack' = Advance(m)
               /\ UNCHANGED seen
          ELSE /\ seen' = seen \cup {m}
               /\ stack' = Append(Advance(m), Frame(m, Succ(G, m)))
    /\ UNCHANGED <<unit, Ob, pc, idx, prog, ignores, G, quiet, Used, Unused, todo>>

\* color returns after the range over n.uses; after color(Root) the quieting
\* loop begins
ColorReturn ==
    /\ pc = "color"
    /\ stack # <<>>
    /\ Top.rest = {}
    /\ stack' = Pop
    /\ IF Len(stack) = 1
       THEN pc' = "quieten" /\ todo' = G.Nodes
       ELSE UNCHANGED <<pc, todo>>
    /\ UNCHANGED <<unit, Ob, idx, prog, ignores, G, seen, quiet, Used, Unused>>

\* results: one iteration of the quieting loop over g.Nodes, up to its range
\* over n.owns
QuietNode ==
    /\ pc = "quieten"
    /\ stack = <<>>
    /\ \E n \in todo :
          /\ todo' = rangeRest(todo, n, {})
          /\ stack' = IF n \in seen THEN <<>> ELSE <<Frame(n, Owned(G, n))>>
    /\ UNCHANGED <<unit, Ob, pc, idx, prog, ignores, G, seen, quiet, Used, Unused>>

\* quieten(owned) for the next owned of n.owns: n.quiet = true, then the
\* range over its own owns
QuietCall ==
    /\ pc = "quieten"
    /\ stack # <<>>
    /\ Len(stack) < MaxDepth
    /\ \E m \in Top.rest :
          /\ quiet' = quiet \cup {m}
          /\ stack' = Append(Advance(m), Frame(m, Owned(G, m)))
    /\ UNCHANGED <<unit, Ob, pc, idx, prog, ignores, G, seen, Used, Unused, todo>>

\* quieten returns, or the iteration of the quieting loop ends
QuietReturn ==
    /\ pc = "quieten"
    /\ stack # <<>>
    /\ Top.rest = {}
    /\ stack' = Pop
    /\ UNCHANGED <<unit, Ob, pc, idx, prog, ignores, G, seen, quiet, Used, Unused, todo>>

\* results: the quieting loop is over, the classification loop begins
QuietDone ==
    /\ pc = "quieten"
    /\ stack = <<>>
    /\ todo = {}
    /\ pc' = "classify"
    /\ todo' = G.Nodes
    /\ UNCHANGED <<unit, Ob, idx, prog, ignores, G, seen, quiet, Used, Unused, stack>>

\* results: one iteration of the classification loop over g.Nodes
Classify ==
    /\ pc = "classify"
    /\ \E n \in todo :
          /\ todo' = rangeRest(todo, n, {})
          /\ Used' = Used \cup resultsUsed([Nodes |-> {n}], seen, quiet)
          /\ Unused' = Unused \cup resultsUnused([Nodes |-> {n}], seen, quiet)
    /\ UNCHANGED <<unit, Ob, pc, idx, prog, ignores, G, seen, quiet, stack>>

\* results returns
ResultsReturn ==
    /\ pc = "classify"
    /\ todo = {}
    /\ pc' = "done"
    /\ UNCHANGED <<unit, Ob, idx, prog, ignores, G, seen, quiet, Used, Unused, stack, todo>>

StepNext ==
    \/ DeclFunc \/ DeclType \/ DeclVar \/ DeclConst \/ EntryMethodSets
    \/ IgnoresBuilt \/ IgnoreNode \/ ColorRoot \/ ColorCall \/ ColorReturn
    \/ QuietNode \/ QuietCall \/ QuietReturn \/ QuietDone \/ Classify \/ ResultsReturn

\* run is one goroutine that runs to its end: a step that can be taken is taken.
StepSpec == StepInit /\ [][StepNext]_vars /\ WF_vars(StepNext)

-----------------------------------------------------------------------------
(* Properties.  Done: results has run; Used and Unused are its two outputs. *)

Done == pc = "done"

Range(q) == {q[i] : i \in DOMAIN q}

\* The named struct types the walk has declared, and the fields of one.
NamedStructs == {t \in Range(G.namedTypes) : Underlying(Ob[t].ty).k = "Struct"}
NamedInterfaces == {t \in Range(G.namedTypes) : Underlying(Ob[t].ty).k = "Interface"}
FieldsOf(t) == Range(Underlying(Ob[t].ty).fields)

\* <<f, s>>: s is a statement of the body of the declared function f.
FuncStmts ==
    UNION {{<<prog[i].name, prog[i].body[j]>> : j \in DOMAIN prog[i].body} :
              i \in {k \in DOMAIN prog : prog[k].k = "FuncDecl"}}

\* <<f, e>>: e is the expression of a statement _ = e of the function f.
FuncExprs ==
    {<<fs[1], fs[2].rhs[1]>> :
        fs \in {x \in FuncStmts : x[2].k = "AssignStmt" /\ x[2].lhs = <<Blank>>}}

\* The g.use calls with their arguments, among the calls ops.
UsesIn(ops) == {<<o.b, o.a>> : o \in {x \in Range(ops) : x.op = "use"}}

\* ---- C1 ------------------------------------------------------------------
\* C1 as stated: after results, whenever A is in Used and the graph has the
\* use edge A -> B, B is in Used; parameters, local variables and unnamed
\* field placeholders included.
C1_UsedClosedUnderUses ==
    Done => \A e \in G.uses : e[1] \in Used => e[2] \in Used

\* C1, amended: after results, whenever A is in Used and the graph has the use
\* edge A -> B, B is seen, and B is in Used unless it is one of the variables
\* results never reports (a variable that is not a field and not declared in
\* the package scope, such as a parameter, or an unnamed field).
C1_UsedSuccessorsSeen ==
    Done => \A e \in G.uses :
                e[1] \in Used => /\ e[2] \in seen
                                 /\ e[2] \in Used \/ skipped(e[2])

\* A used function with an edge to a used type and an edge to its parameter,
\* which is seen but not reported.
C1_Witness ==
    /\ Done
    /\ "F" \in Used
    /\ <<"F", "F.p">> \in G.uses /\ "F.p" \in seen /\ "F.p" \notin Used
    /\ \E e \in G.uses : e[1] = "F" /\ e[2] \in Used /\ Ob[e[2]].cls = "TypeName"
    /\ \E e \in G.uses : e[1] \in Used /\ e[1] # "F" /\ e[2] \in Used

\* ---- C2 ------------------------------------------------------------------
\* C2 as stated: after results, no node whose quiet flag is set is in Used or
\* in Unused.
C2_QuietInNeitherSet ==
    Done => \A n \in quiet : n \notin Used /\ n \notin Unused

\* C2, amended: after results, no node whose quiet flag is set is in Unused,
\* and such a node is in Used only if it is also seen.
C2_QuietNeverUnused ==
    Done => \A n \in quiet : n \notin Unused /\ (n \in Used => n \in seen)

\* A quiet node outside both sets and a quiet node in Used in the same result.
C2_Witness ==
    /\ Done
    /\ \E n \in quiet : n \in G.Nodes /\ ~skipped(n) /\ n \notin Used /\ n \notin Unused
    /\ \E n \in quiet : n \in Used

\* ---- C3 ------------------------------------------------------------------
\* C3: after results, for every named struct type T that is unreachable from
\* Root, no field of T, named or embedded, that is itself unreachable is in
\* Unused.
C3_FieldsOfUnusedStructSilent ==
    Done => \A t \in NamedStructs :
                t \notin seen => \A f \in FieldsOf(t) : f \notin seen => f \notin Unused

Members(group) == SelectSeq(GroupNames(group), LAMBDA n : Ob[n].name # "_")

\* The groups of the constant declarations of the package.
ConstGroups ==
    UNION {Range(GroupSpecs(prog[i].specs)) :
              i \in {k \in DOMAIN prog : prog[k].k = "GenDecl" /\ prog[k].tok = "CONST"}}

\* C5: the non-blank constants of one lexical group of a constant declaration
\* are linked by use edges into one cycle through all of them, so after
\* results either all of them are seen or none is; a member named _ is left
\* out of the cycle.
C5_ConstGroupRing ==
    /\ \A grp \in ConstGroups :
          LET ms == Members(grp)
          IN  /\ \A i \in 1..(Len(ms) - 1) : <<ms[i], ms[i + 1]>> \in G.uses
              /\ Len(ms) >= 2 => <<ms[Len(ms)], ms[1]>> \in G.uses
              /\ Done => \/ \A m \in Range(ms) : m \in seen
                         \/ \A m \in Range(ms) : m \notin seen
    /\ \A grp \in ConstGroups :
          \A n \in {m \in Range(GroupNames(grp)) : Ob[m].name = "_"} :
              \A e \in G.uses : e[1] # n /\ (e[2] = n => e[1] = Root)

\* A group of three constants with _ among them; F reads one member only and
\* all of them are used.
C5_Witness ==
    /\ Done
    /\ ignores = {}
    /\ \E grp \in ConstGroups :
          /\ Len(Members(grp)) = 3
          /\ "_k" \in Range(GroupNames(grp)) /\ GroupNames(grp)[1] # "_k"
          /\ GroupNames(grp)[Len(GroupNames(grp))] # "_k"
          /\ Cardinality({e \in G.uses : e[1] = "F" /\ e[2] \in Range(Members(grp))}) = 1
          /\ Range(Members(grp)) \subseteq Used

\* ---- C6 ------------------------------------------------------------------
\* <<f, c>>: c is a conversion between struct types in the function f.
StructConvs ==
    {fe \in FuncExprs :
        /\ fe[2].k = "CallExpr" /\ Len(fe[2].args) = 1
        /\ CoreType(Dereference(TypeOf(fe[2].fun))).k = "Struct"
        /\ CoreType(Dereference(TypeOf(fe[2].args[1]))).k = "Struct"}

\* C6: a conversion between two struct types links their corresponding fields
\* to each other, in both directions, and to nothing else: it emits no edge
\* from the converting function to a field, so fields that nothing else uses
\* stay unreachable and are reported.
C6_ConversionLinksFieldsOnly ==
    \A fe \in StructConvs :
        LET f == fe[1]
            c == fe[2]
            dst == CoreType(Dereference(TypeOf(c.fun))).fields
            src == CoreType(Dereference(TypeOf(c.args[1]))).fields
            FS == Range(dst) \cup Range(src)
            es == UsesIn(read(c, f))
        IN  /\ \A i \in DOMAIN dst : <<src[i], dst[i]>> \in es /\ <<dst[i], src[i]>> \in es
            /\ \A e \in es : e[2] \in FS => e[1] \in FS
            /\ \A i \in DOMAIN dst : {<<src[i], dst[i]>>, <<dst[i], src[i]>>} \subseteq G.uses
            /\ (Done /\ \A e \in G.uses : e[2] \in FS => e[1] \in FS)
                  => /\ FS \cap seen = {}
                     /\ f \in seen => FS \subseteq Unused

\* The reachable function F converts A{} to B; x and y use each other and both
\* are reported.
C6_Witness ==
    /\ Done
    /\ <<"F", Convert("B", "A")>> \in StructConvs
    /\ {<<"A.x", "B.y">>, <<"B.y", "A.x">>} \subseteq G.uses
    /\ {"A", "B"} \subseteq Used
    /\ {"A.x", "B.y"} \subseteq Unused

\* ---- C7 ------------------------------------------------------------------
\* The declared objects named _.
BlankNodes == {n \in G.Nodes : Ob[n].name = "_"}

SpecNames(d) ==
    IF d.tok = "TYPE" THEN {d.specs[i].name : i \in DOMAIN d.specs}
    ELSE UNION {Range(d.specs[i].names) : i \in DOMAIN d.specs}

TopLevel ==
    UNION {IF prog[i].k = "FuncDecl" THEN {prog[i].name} ELSE SpecNames(prog[i]) :
              i \in DOMAIN prog}

\* The entity whose declaration encloses that of n: the owning type of a field,
\* the function of a declaration statement, Root at package level.
Enclosing(n) ==
    IF Ob[n].field THEN CHOOSE t \in NamedStructs : n \in FieldsOf(t)
    ELSE IF n \in TopLevel THEN Root
    ELSE CHOOSE f \in Objs : \E fs \in FuncStmts :
             fs[1] = f /\ fs[2].k = "DeclStmt" /\ n \in SpecNames(fs[2].decl)

\* C7 as stated: every declaration named _ (function, constant, type,
\* variable, field) is in Used after results, whether or not the entity that
\* encloses it is reachable.
C7_BlankAlwaysUsed ==
    Done => \A n \in BlankNodes : n \in Used

\* C7, amended: every declaration named _ has a use edge from the entity that
\* encloses it (Root at package level and for functions); after results, if
\* that entity is reachable the declaration is seen, and it is in Used unless
\* it is a variable that is not a field, which results does not report.
C7_BlankUsedByEnclosing ==
    \A n \in BlankNodes :
        /\ <<Enclosing(n), n>> \in G.uses
        /\ (Done /\ Enclosing(n) \in seen)
              => /\ n \in seen
                 /\ n \in Used \/ (Ob[n].cls = "Var" /\ ~Ob[n].field)

\* Blank declarations at package level and in the reachable function g are
\* used.
C7_Witness ==
    /\ Done
    /\ "g" \in seen
    /\ {"_f", "_t", "g._c"} \subseteq Used
    /\ \E n \in BlankNodes : Enclosing(n) = "g" /\ n # "g._c" /\ n \in seen

\* ---- C8 ------------------------------------------------------------------
\* The no-copy sentinel shape: a named struct type without fields whose only
\* method is Lock, without parameters and results.
NoCopyShape(ty) ==
    /\ ty.k = "Named"
    /\ UnderlyingOf(ty.obj) = Struct(<<>>)
    /\ Len(MethodsOf(ty.obj)) = 1
    /\ Ob[MethodsOf(ty.obj)[1]].name = "Lock"
    /\ Ob[MethodsOf(ty.obj)[1]].ty = Signature(<<>>, <<>>)

SentinelFields(t) == {f \in FieldsOf(t) : NoCopyShape(Ob[f].ty)}

WrittenVars(st) ==
    CASE st.k = "AssignStmt" -> {st.lhs[i].obj : i \in DOMAIN st.lhs} \ {Nil}
      [] st.k = "IncDecStmt" -> {st.x.obj}
      [] st.k = "RangeStmt" -> {st.key.obj} \ {Nil}
      [] OTHER -> {}

\* C9: a write to a package-level variable through its bare name emits a use
\* edge from the writing function to the variable exactly when the write
\* stands in a file whose name ends in _test.go; where the variable is
\* declared does not matter.
C9_WriteUsesIffInTestFile ==
    \A fs \in FuncStmts : \A v \in WrittenVars(fs[2]) :
        isGlobal(v) =>
            (<<fs[1], v>> \in UsesIn(stmt(fs[2], fs[1])) <=> IsTestFile(Ob[fs[1]].file))

\* ---- C10 -----------------------------------------------------------------
\* C10 as stated: every method declared in an interface type expression is in
\* Used after results, whether or not the interface type or the entity that
\* encloses it is reachable.
C10_InterfaceMethodsAlwaysUsed ==
    Done => \A t \in NamedInterfaces :
                \A m \in Range(Underlying(Ob[t].ty).methods) : m \in Used

\* C10, amended: every method declared in an interface type expression has a
\* use edge from, and is owned by, the entity whose declaration encloses the
\* expression; after results it is in Used whenever that entity is reachable,
\* called or not, and it is never in Unused.
C10_InterfaceMethodsUsedByOwner ==
    \A t \in NamedInterfaces : \A m \in Range(Underlying(Ob[t].ty).methods) :
        /\ <<t, m>> \in G.uses /\ <<t, m>> \in G.owns
        /\ Done => /\ t \in seen => m \in Used
                   /\ m \notin Unused

\* The interface I is reachable through a conversion only; no call of m exists
\* and m is used.
C10_Witness ==
    /\ Done
    /\ ignores = {}
    /\ "I" \in seen
    /\ "I.m" \in Used
    /\ \A e \in G.uses : e[2] = "I.m" => e[1] = "I"

\* ---- C11 -----------------------------------------------------------------
\* C11: entities of other packages never become nodes: at every point of the
\* run every key of g.Nodes is an entity of the analysed package and no use
\* edge starts or ends at a foreign entity, the conversion between struct
\* types included; neither Used nor Unused contains a foreign entity.
C11_NoForeignNodes ==
    /\ \A n \in G.Nodes : Ob[n].pkg = ThePkg
    /\ \A e \in G.uses : e[2] # Root /\ Ob[e[2]].pkg = ThePkg
                         /\ (e[1] # Root => Ob[e[1]].pkg = ThePkg)
    /\ \A n \in Used \cup Unused : Ob[n].pkg = ThePkg

\* ---- C12 -----------------------------------------------------------------
\* The objects whose declaration stands on a suppressed line or in a
\* suppressed file.
Suppressed(n) ==
    \/ [file |-> Ob[n].file, line |-> Ob[n].line] \in ignores
    \/ [file |-> Ob[n].file, line |-> FileIgnore] \in ignores

\* The methods and the fields of the underlying struct of the type a type name
\* stands for.
Shape(t) ==
    (IF Ob[t].ty.k = "Named" THEN Range(MethodsOf(Ob[t].ty.obj)) ELSE {})
    \cup (IF Underlying(Ob[t].ty).k = "Struct" THEN Range(Underlying(Ob[t].ty).fields)
          ELSE {})

AnonFields ==
    UNION {Range(Ob[v].ty.fields) :
              v \in {n \in G.Nodes : Ob[n].cls = "Var" /\ Ob[n].ty.k = "Struct"}}

\* C13: no field of an anonymous struct type, named or embedded, is in Unused
\* after results, whether or not the entity that mentions the struct type is
\* reachable.
C13_AnonymousFieldsNeverUnused ==
    Done => \A f \in AnonFields : f \notin Unused

\* ---- C14 -----------------------------------------------------------------
StructOf(ty) == Underlying(Dereference(ty))

\* The struct types reached from the set S of struct types through embedded
\* fields, pointers stripped, without entering a struct type of avoid.
RECURSIVE EmbeddedClosure(_, _)
EmbeddedClosure(S, avoid) ==
    LET next == {StructOf(Ob[f].ty) :
                    f \in {x \in UNION {Range(st.fields) : st \in S} : Ob[x].embedded}}
        more == {st \in next : st.k = "Struct" /\ st \notin avoid} \ S
    IN  IF more = {} THEN S ELSE EmbeddedClosure(S \cup more, avoid)

\* ty is, or transitively embeds, a struct with an exported field; the search
\* does not enter the struct types of avoid.
ContributesExported(ty, avoid) ==
    /\ StructOf(ty).k = "Struct" /\ StructOf(ty) \notin avoid
    /\ \E st \in EmbeddedClosure({StructOf(ty)}, avoid) :
          \E f \in Range(st.fields) : IsExported(Ob[f].name)

\* <<t, e>>: e is an embedded field of the declared named struct type t.
EmbeddedFields ==
    {te \in NamedStructs \X Objs : te[2] \in FieldsOf(te[1]) /\ Ob[te[2]].embedded}

\* The calls of namedType for the declaration of the struct type t.
NamedTypeUses(t) == UsesIn(namedType(t, TypeExpr(t)))

\* C14 as stated: for every embedded field e of a named struct type T the edge
\* T -> e is emitted whenever e is exported or the type of e, pointers
\* stripped, is a struct that contains an exported field or transitively
\* embeds such a struct; self-referential and mutually recursive embeddings
\* included.
C14_EmbeddedExportedUsed ==
    \A te \in EmbeddedFields :
        (IsExported(Ob[te[2]].name) \/ ContributesExported(Ob[te[2]].ty, {}))
            => <<te[1], te[2]>> \in G.uses

\* C14, amended: the edge T -> e is emitted by namedType exactly when e is
\* exported or a struct with an exported field is found from the type of e,
\* pointers stripped, through embedded fields without entering T's own struct
\* type; an embedded field whose type is T itself, or that reaches an exported
\* field only through T, gets no edge from this rule.
C14_EmbeddedExportedUsedOutsideOwner ==
    \A te \in EmbeddedFields :
        LET t == te[1]
            e == te[2]
            rule == \/ IsExported(Ob[e].name)
                    \/ ContributesExported(Ob[e].ty, {Underlying(Ob[t].ty)})
        IN  /\ <<t, e>> \in NamedTypeUses(t) <=> rule
            /\ rule => <<t, e>> \in G.uses

\* All shapes are declared: h and ma get the edge to their embedded field, k
\* gets it for the exported name, x and mb do not although x.F and mb.F are
\* exported.
C14_Witness ==
    /\ Done
    /\ {"X", "MA", "MB", "H", "K"} \subseteq NamedStructs
    /\ {<<"H", "H.ma">>, <<"MA", "MA.mb">>, <<"K", "K.D">>} \subseteq G.uses
    /\ <<"X", "X.x">> \notin G.uses /\ <<"MB", "MB.ma">> \notin G.uses
    /\ ContributesExported(Ob["X.x"].ty, {})
    /\ "X" \in Used /\ "X.x" \in Unused

\* ---- C15 -----------------------------------------------------------------
\* The declared methods: the function declarations with a receiver.
MethodDecls == {d \in Range(prog) : d.k = "FuncDecl" /\ d.recv # NilNode}

\* The named type of the receiver of the method declaration d.
Receiver(d) == d.recv.list[1].typ.obj

\* C15: a method gets no use edge from Root on account of being exported or
\* of being named init or main; without suppression annotations an exported
\* or init-named method has no Root edge after results, and when nothing but
\* the methods of its receiver type uses that type, it is not in Used.
C15_MethodsNotUsedByName ==
    \A d \in MethodDecls :
        (IsExported(Ob[d.name].name) \/ Ob[d.name].name \in {"init", "main"}) =>
            /\ funcDeclRoot(d, d.name) = <<>>
            /\ Done /\ ignores = {} =>
                  /\ <<Root, d.name>> \notin G.uses
                  /\ (\A e \in G.uses : e[2] = Receiver(d) =>
                          e[1] \in Range(MethodsOf(Receiver(d))))
                       => d.name \notin Used

\* ---- C16 -----------------------------------------------------------------
\* The nodes that a path of use edges of the graph joins to a node of S: the
\* least set that contains S and is closed under the use edges.
RECURSIVE UsePaths(_)
UsePaths(S) ==
    LET N == S \cup {e[2] : e \in {d \in G.uses : d[1] \in S}}
    IN  IF N = S THEN S ELSE UsePaths(N)

\* C16: after results a node is seen if and only if a path of use edges leads
\* from Root to it; a node that only owns edges join to Root stays unseen, and
\* a node without a use path from Root is not in Used.
C16_SeenIffUsePath ==
    Done =>
        /\ seen = UsePaths({Root})
        /\ \A n \in G.Nodes : n \notin UsePaths({Root}) => n \notin Used
        /\ \A e \in G.owns : e[2] \notin UsePaths({Root}) => e[2] \notin seen

\* A seen node other than Root owns a node that no use path reaches, and the use edges
\* contain a cycle among the seen nodes.
C16_Witness ==
    /\ Done
    /\ \E e \in G.owns : e[1] \in seen \ {Root} /\ e[2] \notin seen /\ e[2] \notin Used
    /\ \E e \in G.uses : e[1] \in seen /\ <<e[2], e[1]>> \in G.uses

\* ---- C17 -----------------------------------------------------------------
\* C17: every run of run reaches the end of results: the calls of color end
\* although the use edges have cycles, the calls of quieten end, and the walk
\* with its calls of hasExportedField on self-referential and mutually
\* recursive embeddings ends.
C17_ResultsTerminates == <>Done

\* results has ended on a graph with a cycle of use edges among seen nodes and
\* a chain of two owns edges under an unseen node, all of it made quiet.
C17_Witness ==
    /\ Done
    /\ \E e \in G.uses : e[1] \in seen \ {Root} /\ <<e[2], e[1]>> \in G.uses
    /\ \E a, b \in G.owns :
          a[1] \notin seen /\ a[2] = b[1] /\ {a[2], b[2]} \subseteq quiet

\* ---- C18 -----------------------------------------------------------------
\* The graph of the walk over the declarations p, starting from g.
RECURSIVE Walked(_, _)
Walked(g, p) == IF p = <<>> THEN g ELSE Walked(Apply(g, decl(Head(p), Nil)), Tail(p))

\* The graph at the end of the walk and of the method sets, before the
\* suppression overlay.
WalkGraph ==
    LET g == Walked(EmptyGraph, prog) IN Apply(g, methodSets(g, g.namedTypes))

\* C18: whatever the order in which the three ranges over g.Nodes produce the
\* keys, and whether or not the keys inserted by the suppression overlay are
\* produced, the graph, the seen and quiet flags, Used and Unused at the end of
\* results are those of the run that takes the nodes of the walk in one fixed
\* order: they are a function of the edges of the walk and of the annotations.
C18_ResultsIndependentOfOrder ==
    Done =>
        LET g == Apply(WalkGraph, ignoreAll(WalkGraph, ignores))
            S == color(g, {}, Root)
            Q == quietenUnseen(g, S, {}, g.Nodes)
        IN  /\ G = g
            /\ seen = S
            /\ quiet = Q
            /\ Used = resultsUsed(g, S, Q)
            /\ Unused = resultsUnused(g, S, Q)

\* results has ended after a suppression overlay that inserted a node into
\* g.Nodes during its range, with nodes in Used and in Unused.
C18_Witness ==
    /\ Done
    /\ G.Nodes \ WalkGraph.Nodes # {}
    /\ Used # {} /\ Unused # {}

====
